---- MODULE Spec2Model ----
(***************************************************************************)
(* Verification model of the iCalendar content-line library:               *)
(*   unfold.rs        Unfold (physical lines -> logical lines)             *)
(*   fold.rs          fold / fold_with_max_length / fold_and_join          *)
(*   content_line.rs  ContentLine Display and FromStr                      *)
(*   ical_object.rs   ICalObject from_peekable / from_bufread / Display    *)
(*                                                                         *)
(* Strings are sequences of bytes (their UTF-8 encoding), bytes are        *)
(* integers 0..255.  A Rust panic is an outcome of its own ("Panic").      *)
(***************************************************************************)
EXTENDS Integers, Sequences, FiniteSets, TLC

VARIABLES
    input,      \* the bytes of the underlying reader
    pos,        \* number of bytes the reader has handed out so far
    ioErrAt,    \* offset at which the reader starts failing, or NoIoErr
    last_line,  \* Unfold.last_line : Option<Vec<u8>>, <<>> or <<buf>>
    items,      \* the items the Unfold iterator has returned so far
    src,        \* per specification: what the input is built from, or the
                \* objects earlier calls of from_peekable have returned
    pc,         \* the step the program is at
    fused,      \* FlatMap: the Unfold iterator has returned None (Fuse)
    peeked,     \* Peekable.peeked : Option<Option<Item>>, <<>> or <<item>>
    citems,     \* the items pulled from the FlatMap iterator so far
    stack,      \* the active calls of from_peekable, outermost first
    result      \* what the top-level call (a parse) has returned

unfoldVars == <<pos, last_line, items>>
parseVars == <<fused, peeked, citems, stack, result>>
vars == <<input, ioErrAt, src, pc, unfoldVars, parseVars>>

----------------------------------------------------------------------------
(* Bytes *)

CR == 13
LF == 10
SP == 32
TAB == 9
InvalidByte == 255

\* Option<T> as a sequence of length 0 or 1
None == <<>>
Some(x) == <<x>>

NoIoErr == -1

\* `let x = v; ...`: the rest of the function body F, with x bound to the
\* value of v, which is computed once
Bind(v, F(_)) == CHOOSE y \in { F(x) : x \in {v} } : TRUE

----------------------------------------------------------------------------
(* The reader: std::io::BufRead over `input`, failing from ioErrAt on *)

\* offsets (1-based) of a CR the reader can deliver starting after offset p
CRsFrom(inp, ioe, p) ==
    { i \in (p + 1)..Len(inp) : inp[i] = CR /\ (ioe = NoIoErr \/ i <= ioe) }

Min(S) == CHOOSE x \in S : \A y \in S : x <= y

\* BufRead::read_until(b'\r', &mut buf): the bytes up to and including the
\* first CR, or up to end of input; an I/O error loses the bytes read.
read_until(inp, ioe, p) ==
    Bind(CRsFrom(inp, ioe, p), LAMBDA crs :
    IF crs # {}
    THEN [res |-> "ok", buf |-> SubSeq(inp, p + 1, Min(crs)), pos |-> Min(crs)]
    ELSE IF ioe # NoIoErr
    THEN [res |-> "io", buf |-> <<>>, pos |-> IF ioe > p THEN ioe ELSE p]
    ELSE [res |-> "ok", buf |-> SubSeq(inp, p + 1, Len(inp)), pos |-> Len(inp)])

\* Read::read_exact on a one byte buffer
read_exact(inp, ioe, p) ==
    IF ioe # NoIoErr /\ p >= ioe
    THEN [res |-> "io", byte |-> 0, pos |-> p]
    ELSE IF p >= Len(inp)
    THEN [res |-> "eof", byte |-> 0, pos |-> p]
    ELSE [res |-> "ok", byte |-> inp[p + 1], pos |-> p + 1]

----------------------------------------------------------------------------
(* UTF-8 validation, String::from_utf8 *)

IsCont(x) == x >= 128 /\ x <= 191

\* number of bytes of the char a lead byte announces, 0 for no lead byte
Utf8Width(x) ==
    IF x < 128 THEN 1
    ELSE IF x >= 194 /\ x <= 223 THEN 2
    ELSE IF x >= 224 /\ x <= 239 THEN 3
    ELSE IF x >= 240 /\ x <= 244 THEN 4
    ELSE 0

\* b[i] starts a well-formed char: the continuation bytes it announces
\* follow, within the ranges that exclude overlong forms and surrogates
Utf8CharAt(b, i) ==
    Bind(Utf8Width(b[i]), LAMBDA w :
    /\ w > 0
    /\ i + w - 1 <= Len(b)
    /\ \A j \in (i + 1)..(i + w - 1) : IsCont(b[j])
    /\ (b[i] = 224 => b[i + 1] >= 160)
    /\ (b[i] = 237 => b[i + 1] <= 159)
    /\ (b[i] = 240 => b[i + 1] >= 144)
    /\ (b[i] = 244 => b[i + 1] <= 143))

\* every byte starts a well-formed char or continues one
IsUtf8(b) ==
    \A i \in 1..Len(b) :
        IF IsCont(b[i])
        THEN \E k \in 1..3 :
                /\ i - k >= 1
                /\ Utf8Width(b[i - k]) > k
                /\ \A j \in (i - k + 1)..(i - 1) : IsCont(b[j])
        ELSE Utf8CharAt(b, i)

----------------------------------------------------------------------------
(* Unfold::next *)

OkItem(line) == [kind |-> "Ok", line |-> line, err |-> ""]
ErrItem(e) == [kind |-> "Err", line |-> <<>>, err |-> e]
NoneItem == [kind |-> "None", line |-> <<>>, err |-> ""]
PanicItem == [kind |-> "Panic", line |-> <<>>, err |-> ""]

from_utf8(b) == IF IsUtf8(b) THEN OkItem(b) ELSE ErrItem("utf8")

Ret(item, p, ll) == [item |-> item, pos |-> p, last_line |-> ll]

Front(s) == SubSeq(s, 1, Len(s) - 1)

\* the `loop` of Unfold::next, entered with the logical line built so far
RECURSIVE UnfoldLoop(_, _, _, _)
UnfoldLoop(inp, ioe, byte_buf, p) ==
    Bind(read_until(inp, ioe, p), LAMBDA r :
    IF r.res = "io" THEN Ret(ErrItem("io"), r.pos, None)
    ELSE IF Len(r.buf) = 0 THEN Ret(NoneItem, r.pos, None)
    ELSE IF r.buf[Len(r.buf)] # CR
    THEN Ret(ErrItem("termination"), r.pos, Some(r.buf))
    ELSE Bind(read_exact(inp, ioe, r.pos), LAMBDA e :
         IF e.res # "ok" THEN Ret(ErrItem(e.res), e.pos, None)
         ELSE IF e.byte # LF THEN Ret(PanicItem, e.pos, None)
         ELSE Bind(Front(r.buf), LAMBDA next_line_buf :
              IF next_line_buf = <<>>
              THEN Ret(ErrItem("empty_line"), e.pos, None)
              ELSE IF next_line_buf[1] # SP /\ next_line_buf[1] # TAB
              THEN Ret(from_utf8(byte_buf), e.pos, Some(next_line_buf))
              ELSE UnfoldLoop(inp, ioe, byte_buf \o Tail(next_line_buf), e.pos))))

\* the first read of Unfold::next, when last_line is None
UnfoldFirst(inp, ioe, p) ==
    Bind(read_until(inp, ioe, p), LAMBDA r :
    IF r.res = "io" THEN Ret(ErrItem("io"), r.pos, None)
    ELSE IF Len(r.buf) = 0 THEN Ret(NoneItem, r.pos, None)
    ELSE IF r.buf[1] = SP \/ r.buf[1] = TAB THEN Ret(PanicItem, r.pos, None)
    ELSE IF r.buf[Len(r.buf)] # CR
    THEN Ret(ErrItem("termination"), r.pos, Some(r.buf))
    ELSE Bind(read_exact(inp, ioe, r.pos), LAMBDA e :
         IF e.res # "ok" THEN Ret(ErrItem(e.res), e.pos, None)
         ELSE IF e.byte # LF THEN Ret(PanicItem, e.pos, None)
         ELSE UnfoldLoop(inp, ioe, Front(r.buf), e.pos)))

UnfoldNext(inp, ioe, p, ll) ==
    IF ll # None THEN UnfoldLoop(inp, ioe, ll[1], p)
    ELSE UnfoldFirst(inp, ioe, p)

----------------------------------------------------------------------------
(* Bounded sets of sequences *)

RECURSIVE SeqsUpTo(_, _)
SeqsUpTo(S, n) ==
    IF n = 0 THEN {<<>>}
    ELSE LET shorter == SeqsUpTo(S, n - 1)
         IN  shorter \cup { Append(s, x) : s \in { t \in shorter : Len(t) = n - 1 }, x \in S }

\* the concatenation of the sequences ss[lo], ..., ss[hi]
RECURSIVE ConcatRange(_, _, _)
ConcatRange(ss, lo, hi) ==
    IF lo > hi THEN <<>>
    ELSE IF lo = hi THEN ss[lo]
    ELSE LET mid == (lo + hi) \div 2
         IN  ConcatRange(ss, lo, mid) \o ConcatRange(ss, mid + 1, hi)

Concat(ss) == ConcatRange(ss, 1, Len(ss))

----------------------------------------------------------------------------
(* fold.rs.  A &str is walked char by char: here a sequence of chars, each *)
(* char the sequence of the bytes of its UTF-8 encoding.                   *)

len_utf8(c) == Len(c)

\* String::as_bytes of a sequence of chars
Bytes(chars) == Concat(chars)

Max(S) == CHOOSE x \in S : \A y \in S : x >= y

\* str::chars of the bytes b[lo..hi] of a string: a char starts at every
\* byte that is not a continuation byte
RECURSIVE CharsRange(_, _, _)
CharsRange(b, lo, hi) ==
    Bind({ i \in (lo + 1)..hi : ~IsCont(b[i]) }, LAMBDA starts :
    Bind({ i \in starts : 2 * i > lo + hi }, LAMBDA upper :
    IF lo > hi THEN <<>>
    ELSE IF starts = {} THEN << SubSeq(b, lo, hi) >>
    ELSE Bind(IF upper # {} THEN Min(upper) ELSE Max(starts), LAMBDA m :
         CharsRange(b, lo, m - 1) \o CharsRange(b, m, hi))))

chars(b) == CharsRange(b, 1, Len(b))

DefaultMaxLength == 75

\* FoldStep with the counter reset to the char alone, the SPACE not counted
FoldStepSpaceNotCounted(st, c, max_length) ==
    IF st.current_line_length + len_utf8(c) > max_length
    THEN [new_line_buf |-> st.new_line_buf \o << <<CR>>, <<LF>>, <<SP>>, c >>,
          current_line_length |-> len_utf8(c)]
    ELSE [new_line_buf |-> Append(st.new_line_buf, c),
          current_line_length |-> st.current_line_length + len_utf8(c)]

\* FoldStep with a TAB as the continuation marker
FoldStepTabMarker(st, c, max_length) ==
    IF st.current_line_length + len_utf8(c) > max_length
    THEN [new_line_buf |-> st.new_line_buf \o << <<CR>>, <<LF>>, <<TAB>>, c >>,
          current_line_length |-> len_utf8(<<TAB>>) + len_utf8(c)]
    ELSE [new_line_buf |-> Append(st.new_line_buf, c),
          current_line_length |-> st.current_line_length + len_utf8(c)]

\* one iteration of the `for c in line.chars()` loop of fold_with_max_length
FoldStep(st, c, max_length) ==
    IF st.current_line_length + len_utf8(c) > max_length
    THEN [new_line_buf |-> st.new_line_buf \o << <<CR>>, <<LF>>, <<SP>>, c >>,
          current_line_length |-> len_utf8(<<SP>>) + len_utf8(c)]
    ELSE [new_line_buf |-> Append(st.new_line_buf, c),
          current_line_length |-> st.current_line_length + len_utf8(c)]

\* the iterations for the chars lo..hi of the line, in order, from state st
RECURSIVE FoldChars(_, _, _, _, _)
FoldChars(line, lo, hi, st, max_length) ==
    IF lo > hi THEN st
    ELSE IF lo = hi THEN FoldStep(st, line[lo], max_length)
    ELSE Bind(FoldChars(line, lo, (lo + hi) \div 2, st, max_length), LAMBDA half :
         \* current_line_length is a usize; the test makes the first
         \* half be evaluated before the second one starts
         IF half.current_line_length >= 0
         THEN FoldChars(line, (lo + hi) \div 2 + 1, hi, half, max_length)
         ELSE half)

fold_with_max_length(line, max_length) ==
    FoldChars(line, 1, Len(line),
              [new_line_buf |-> <<>>, current_line_length |-> 0],
              max_length).new_line_buf

fold(line) == fold_with_max_length(line, DefaultMaxLength)

\* folded_lines.join("\r\n")
RECURSIVE Join(_)
Join(ls) ==
    IF ls = <<>> THEN <<>>
    ELSE IF Len(ls) = 1 THEN ls[1]
    ELSE ls[1] \o << <<CR>>, <<LF>> >> \o Join(Tail(ls))

fold_and_join(lines) ==
    Join([i \in 1..Len(lines) |-> fold(lines[i])]) \o << <<CR>>, <<LF>> >>

----------------------------------------------------------------------------
(* content_line.rs *)

SEMI == 59
COLON == 58
COMMA == 44
EQUALS == 61
DQUOTE == 34
HYPHEN == 45
DEL == 127

\* the ASCII letters and digits the model writes names and values with
Ascii ==
    [c \in {"A", "B", "C", "D", "E", "G", "I", "N", "P", "Q", "X", "Y",
            "a", "b", "c", "d", "e", "g", "i", "n", "v", "1", "2"} |->
        CASE c = "A" -> 65 [] c = "B" -> 66 [] c = "C" -> 67 [] c = "D" -> 68
          [] c = "E" -> 69 [] c = "G" -> 71 [] c = "I" -> 73 [] c = "N" -> 78
          [] c = "P" -> 80 [] c = "Q" -> 81 [] c = "X" -> 88 [] c = "Y" -> 89
          [] c = "a" -> 97 [] c = "b" -> 98 [] c = "c" -> 99 [] c = "d" -> 100
          [] c = "e" -> 101 [] c = "g" -> 103 [] c = "i" -> 105
          [] c = "n" -> 110 [] c = "v" -> 118 [] c = "1" -> 49 [] c = "2" -> 50]

\* a string literal: the ASCII bytes of a tuple of one-letter strings
Lit(cs) == [i \in 1..Len(cs) |-> Ascii[cs[i]]]

\* u8::is_ascii_control, u8::is_ascii_alphanumeric
is_ascii_control(x) == x <= 31 \/ x = DEL
is_ascii_alphanumeric(x) ==
    \/ (x >= 48 /\ x <= 57)
    \/ (x >= 65 /\ x <= 90)
    \/ (x >= 97 /\ x <= 122)

\* the charset checks of build_name, build_qsafe, build_safe, build_value
name_ok(b) ==
    \A i \in 1..Len(b) : is_ascii_alphanumeric(b[i]) \/ b[i] = HYPHEN
qsafe_ok(b) ==
    \A i \in 1..Len(b) :
        ~((is_ascii_control(b[i]) /\ b[i] # TAB) \/ b[i] = DQUOTE)
safe_ok(b) ==
    \A i \in 1..Len(b) :
        ~(\/ (is_ascii_control(b[i]) /\ b[i] # TAB)
          \/ b[i] = DQUOTE \/ b[i] = SEMI \/ b[i] = COLON \/ b[i] = COMMA)
\* build_value without its check of control characters
value_unchecked(b) == Len(b) >= 0

value_ok(b) ==
    \A i \in 1..Len(b) : ~(is_ascii_control(b[i]) /\ b[i] # TAB)

ContentLine(name, params, value) ==
    [name |-> name, params |-> params, value |-> value]
Param(name, values) == [name |-> name, values |-> values]

\* impl Display for ContentLine: one parameter value
FormatValue(value) ==
    LET is_quoted == \E i \in 1..Len(value) : value[i] \in {SEMI, COLON, COMMA}
    IN  IF is_quoted THEN <<DQUOTE>> \o value \o <<DQUOTE>> ELSE value

\* impl Display for ContentLine: `;name=` and then each value
FormatParam(param) ==
    <<SEMI>> \o param.name \o <<EQUALS>>
        \o Concat([i \in 1..Len(param.values) |-> FormatValue(param.values[i])])

\* impl Display for ContentLine (to_string)
ContentLineToString(l) ==
    l.name
        \o Concat([i \in 1..Len(l.params) |-> FormatParam(l.params[i])])
        \o <<COLON>> \o l.value

NotFound == -1

\* memchr / memchr2 / memchr3 over raw[cursor..]: the offset, counted from
\* cursor, of the first byte that is in `needles`
memchr(needles, raw, cursor) ==
    Bind({ i \in (cursor + 1)..Len(raw) : raw[i] \in needles }, LAMBDA hits :
    IF hits = {} THEN NotFound ELSE Min(hits) - 1 - cursor)

\* raw[from..to] with Rust's 0-based, end-exclusive offsets
Slice(raw, from, to) == SubSeq(raw, from + 1, to)

ParseOk(l) == [kind |-> "Ok", line |-> l, err |-> ""]
ParseErr(e) == [kind |-> "Err", line |-> ContentLine(<<>>, <<>>, <<>>), err |-> e]
ParsePanic == [kind |-> "Panic", line |-> ContentLine(<<>>, <<>>, <<>>), err |-> ""]

\* ValuesOk of a loop that keeps only the value it parsed last
ValuesOkLastOnly(cursor, values) ==
    [kind |-> "Ok", cursor |-> cursor, values |-> <<values[Len(values)]>>, err |-> ""]

ValuesOk(cursor, values) == [kind |-> "Ok", cursor |-> cursor, values |-> values, err |-> ""]
ValuesErr(e) == [kind |-> "Err", cursor |-> 0, values |-> <<>>, err |-> e]
ValuesPanic == [kind |-> "Panic", cursor |-> 0, values |-> <<>>, err |-> ""]

\* the do-while loop over the values of one parameter, entered with the
\* cursor on the '=' or ',' before the value; indexing raw past its end panics
RECURSIVE ParseValues(_, _, _)
ParseValues(raw, cursor0, param_values) ==
    LET Again(c, vs) ==
            IF c >= Len(raw) THEN ValuesPanic
            ELSE IF raw[c + 1] = COMMA THEN ParseValues(raw, c, vs)
            ELSE ValuesOk(c, vs)
        Quoted(cursor) ==
            Bind(memchr({DQUOTE}, raw, cursor), LAMBDA param_value_end :
            Bind(Slice(raw, cursor, cursor + param_value_end), LAMBDA param_value :
            IF param_value_end = NotFound THEN ValuesErr("no '\"' found")
            ELSE IF ~qsafe_ok(param_value) THEN ValuesErr("invalid qsafe")
            ELSE Again(cursor + param_value_end + 1,
                       Append(param_values, param_value))))
        Unquoted(cursor) ==
            Bind(memchr({COMMA, SEMI, COLON}, raw, cursor), LAMBDA param_value_end :
            Bind(Slice(raw, cursor, cursor + param_value_end), LAMBDA param_value :
            IF param_value_end = NotFound
            THEN ValuesErr("no ',' or ';' or ':' found")
            ELSE IF ~safe_ok(param_value) THEN ValuesErr("invalid safe")
            ELSE Again(cursor + param_value_end,
                       Append(param_values, param_value))))
    IN
    IF cursor0 + 1 >= Len(raw) THEN ValuesPanic
    ELSE IF raw[cursor0 + 2] = DQUOTE THEN Quoted(cursor0 + 2)
    ELSE Unquoted(cursor0 + 1)

\* the `while raw_line.as_bytes()[cursor] == b';'` loop and what follows it
RECURSIVE ParseParams(_, _, _, _)
ParseParams(raw, name, cursor0, params) ==
    IF cursor0 >= Len(raw) THEN ParsePanic
    ELSE IF raw[cursor0 + 1] = SEMI
    THEN Bind(memchr({EQUALS}, raw, cursor0 + 1), LAMBDA param_name_end :
         Bind(Slice(raw, cursor0 + 1, cursor0 + 1 + param_name_end), LAMBDA param_name :
         IF param_name_end = NotFound THEN ParseErr("no '=' found")
         ELSE IF ~name_ok(param_name) THEN ParseErr("invalid name")
         ELSE Bind(ParseValues(raw, cursor0 + 1 + param_name_end, <<>>), LAMBDA vs :
              IF vs.kind = "Panic" THEN ParsePanic
              ELSE IF vs.kind = "Err" THEN ParseErr(vs.err)
              ELSE ParseParams(raw, name, vs.cursor,
                               Append(params, Param(param_name, vs.values))))))
    ELSE IF raw[cursor0 + 1] # COLON THEN ParseErr("no ':' found")
    ELSE Bind(Slice(raw, cursor0 + 1, Len(raw)), LAMBDA value :
         IF ~value_ok(value) THEN ParseErr("invalid value")
         ELSE ParseOk(ContentLine(name, params, value)))

\* impl FromStr for ContentLine
ContentLineFromStr(raw_line) ==
    Bind(memchr({SEMI, COLON}, raw_line, 0), LAMBDA name_end :
    Bind(Slice(raw_line, 0, name_end), LAMBDA name :
    IF name_end = NotFound THEN ParseErr("no ';' or ':' found")
    ELSE IF ~name_ok(name) THEN ParseErr("invalid name")
    ELSE ParseParams(raw_line, name, name_end, <<>>)))

----------------------------------------------------------------------------
(* ical_object.rs: the state of a parse *)

ICalObject(object_type, properties, sub_objects) ==
    [object_type |-> object_type, properties |-> properties,
     sub_objects |-> sub_objects]

NoObject == ICalObject(<<>>, <<>>, <<>>)

\* Result<ICalObject>, a panic, or nothing returned yet
ResOk(obj) == [kind |-> "Ok", obj |-> obj, err |-> ""]
ResErr(e) == [kind |-> "Err", obj |-> NoObject, err |-> e]
ResPanic == [kind |-> "Panic", obj |-> NoObject, err |-> ""]
NoResult == [kind |-> "None", obj |-> NoObject, err |-> ""]

\* no parse has started
ParseIdle ==
    /\ fused = FALSE
    /\ peeked = None
    /\ citems = <<>>
    /\ stack = <<>>
    /\ result = NoResult

\* an item of the content-line iterator: ParseOk, ParseErr, ParsePanic or
\* the end of the iteration
ItemNone == [kind |-> "None", line |-> ContentLine(<<>>, <<>>, <<>>), err |-> ""]

Pulled(item, p, ll, fz, log) ==
    [item |-> item, pos |-> p, last_line |-> ll, fused |-> fz, log |-> log]

\* from_bufread: next() of Unfold::new(read).flat_map(|line| line.map(|line|
\* line.parse::<ContentLine>())).  The closure turns an Ok line into
\* Ok(parse result) and leaves an Err as it is; iterating a Result yields
\* the value of an Ok and nothing for an Err, so FlatMap goes on to pull the
\* next line after an Err.  FlatMap fuses the Unfold: after its first None it
\* is not pulled again.  `log` collects the items the Unfold returned.
RECURSIVE FlatMapNext(_, _, _, _, _, _)
FlatMapNext(inp, ioe, p, ll, fz, log) ==
    IF fz THEN Pulled(ItemNone, p, ll, fz, log)
    ELSE Bind(UnfoldNext(inp, ioe, p, ll), LAMBDA r :
         IF r.item.kind = "Ok"
         THEN Pulled(ContentLineFromStr(r.item.line), r.pos, r.last_line,
                     FALSE, Append(log, r.item))
         ELSE IF r.item.kind = "Err"
         THEN FlatMapNext(inp, ioe, r.pos, r.last_line, FALSE, Append(log, r.item))
         ELSE IF r.item.kind = "None"
         THEN Pulled(ItemNone, r.pos, r.last_line, TRUE, Append(log, r.item))
         ELSE Pulled(ParsePanic, r.pos, r.last_line, FALSE, Append(log, r.item)))

\* Peekable::peek and Peekable::next fill the peeked slot from the iterator
\* when it is empty; next() then empties it
PeekItem ==
    IF peeked # None
    THEN Pulled(peeked[1], pos, last_line, fused, items)
    ELSE FlatMapNext(input, ioErrAt, pos, last_line, fused, items)

\* eq_ignore_ascii_case replaced by ==
eq_with_case(a, b) == a = b

eq_ignore_ascii_case(a, b) ==
    LET to_lower(x) == IF x >= 65 /\ x <= 90 THEN x + 32 ELSE x
    IN  /\ Len(a) = Len(b)
        /\ \A i \in 1..Len(a) : to_lower(a[i]) = to_lower(b[i])

BEGIN == Lit(<<"B", "E", "G", "I", "N">>)
END == Lit(<<"E", "N", "D">>)

\* the top-level call returns (Ok, Err through `?`, or a panic unwinds)
Return(res) ==
    /\ result' = res
    /\ stack' = <<>>
    /\ pc' = "done"

\* StartWith without the test of ical_object.rs lines 25-27: any first line
\* opens an object
StartWithAnyName(n) ==
    /\ pos' = n.pos
    /\ last_line' = n.last_line
    /\ fused' = n.fused
    /\ items' = n.log
    /\ peeked' = None
    /\ citems' = IF peeked = None THEN Append(citems, n.item) ELSE citems
    /\ IF n.item.kind = "Panic" THEN Return(ResPanic)
       ELSE IF n.item.kind = "None" THEN Return(ResErr("no line found"))
       ELSE IF n.item.kind = "Err" THEN Return(ResErr(n.item.err))
       ELSE /\ stack' = <<ICalObject(n.item.line.value, <<>>, <<>>)>>
            /\ pc' = "body"
            /\ UNCHANGED result

\* from_peekable pulls the first item with peekable.next() and wants a BEGIN
\* (ical_object.rs lines 22-28); n is what the peekable hands out
StartWith(n) ==
    /\ pos' = n.pos
    /\ last_line' = n.last_line
    /\ fused' = n.fused
    /\ items' = n.log
    /\ peeked' = None
    /\ citems' = IF peeked = None THEN Append(citems, n.item) ELSE citems
    /\ IF n.item.kind = "Panic" THEN Return(ResPanic)
       ELSE IF n.item.kind = "None" THEN Return(ResErr("no line found"))
       ELSE IF n.item.kind = "Err" THEN Return(ResErr(n.item.err))
       ELSE IF ~eq_ignore_ascii_case(n.item.line.name, BEGIN)
       THEN Return(ResErr("expected BEGIN"))
       ELSE /\ stack' = <<ICalObject(n.item.line.value, <<>>, <<>>)>>
            /\ pc' = "body"
            /\ UNCHANGED result

\* ICalObject::from_str / from_bufread / from_iterator build the iterators
\* and call from_peekable
Start ==
    /\ pc = "start"
    /\ \E n \in {PeekItem} : StartWith(n)
    /\ UNCHANGED <<input, ioErrAt, src>>

\* Finish with the push at ical_object.rs line 50 left out: the sub-object a
\* recursive call returns is dropped
FinishDropsSubObject(obj) ==
    IF Len(stack) = 1 THEN Return(ResOk(obj))
    ELSE /\ stack' = Front(stack)
         /\ UNCHANGED <<result, pc>>

\* the innermost call of from_peekable returns Ok(obj) to its caller
Finish(obj) ==
    IF Len(stack) = 1 THEN Return(ResOk(obj))
    ELSE \E caller \in {stack[Len(stack) - 1]} :
         /\ stack' = Append(SubSeq(stack, 1, Len(stack) - 2),
                            ICalObject(caller.object_type, caller.properties,
                                       Append(caller.sub_objects, obj)))
         /\ UNCHANGED <<result, pc>>

\* Consumed with the next() of ical_object.rs line 33 left out: an error item
\* is looked at with peek() only
ConsumedOkOnly(item) == item.kind = "Ok"

\* the item peek() shows is taken out of the peekable by a next() in the same
\* iteration (ical_object.rs lines 33, 41, 50 and 53): every item but None,
\* on which the loop ends
Consumed(item) == item.kind \in {"Ok", "Err"}

\* one iteration of the `while let` loop of the innermost from_peekable call
\* (ical_object.rs lines 29-56); on a nested BEGIN the iteration includes the
\* opening of the recursive call, which consumes that BEGIN; n is what the
\* peekable shows and top the object the call is building
BodyWith(n, top) ==
    /\ pos' = n.pos
    /\ last_line' = n.last_line
    /\ fused' = n.fused
    /\ items' = n.log
    /\ peeked' = IF Consumed(n.item) THEN None ELSE Some(n.item)
    /\ citems' = IF peeked = None THEN Append(citems, n.item) ELSE citems
    /\ IF n.item.kind = "Panic" THEN Return(ResPanic)
       ELSE IF n.item.kind = "Err" THEN Return(ResErr(n.item.err))
       ELSE IF n.item.kind = "None" THEN Finish(top)
       ELSE IF eq_ignore_ascii_case(n.item.line.name, END)
       THEN IF n.item.line.value # top.object_type
            THEN Return(ResErr("expected END"))
            ELSE Finish(top)
       ELSE IF eq_ignore_ascii_case(n.item.line.name, BEGIN)
       THEN /\ stack' = Append(stack, ICalObject(n.item.line.value, <<>>, <<>>))
            /\ UNCHANGED <<result, pc>>
       ELSE /\ stack' = Append(Front(stack),
                               ICalObject(top.object_type,
                                          Append(top.properties, n.item.line),
                                          top.sub_objects))
            /\ UNCHANGED <<result, pc>>

Body ==
    /\ pc = "body"
    /\ \E n \in {PeekItem}, top \in {stack[Len(stack)]} : BodyWith(n, top)
    /\ UNCHANGED <<input, ioErrAt, src>>

\* ObjectToString with the sub-objects written before the properties
RECURSIVE ObjectToStringSubsFirst(_)
ObjectToStringSubsFirst(obj) ==
    LET Line(b) == fold(chars(b)) \o << <<CR>>, <<LF>> >>
    IN  Line(BEGIN \o <<COLON>> \o obj.object_type)
            \o Concat([i \in 1..Len(obj.sub_objects) |->
                          ObjectToStringSubsFirst(obj.sub_objects[i])])
            \o Concat([i \in 1..Len(obj.properties) |->
                          Line(ContentLineToString(obj.properties[i]))])
            \o Line(END \o <<COLON>> \o obj.object_type)

\* impl Display for ICalObject, as chars
RECURSIVE ObjectToString(_)
ObjectToString(obj) ==
    LET Line(b) == fold(chars(b)) \o << <<CR>>, <<LF>> >>
    IN  Line(BEGIN \o <<COLON>> \o obj.object_type)
            \o Concat([i \in 1..Len(obj.properties) |->
                          Line(ContentLineToString(obj.properties[i]))])
            \o Concat([i \in 1..Len(obj.sub_objects) |->
                          ObjectToString(obj.sub_objects[i])])
            \o Line(END \o <<COLON>> \o obj.object_type)

----------------------------------------------------------------------------
(* Specification of the Unfold iterator over an arbitrary byte stream *)

MaxChunks == 5
MaxPulls == 8

\* the pieces byte streams are made of
StreamChunks ==
    { <<CR, LF>>, <<CR>>, <<LF>>, <<SP>>, <<TAB>>, <<65>>, <<InvalidByte>> }

Streams == { Concat(cs) : cs \in SeqsUpTo(StreamChunks, MaxChunks) }

Exhausted == items # <<>> /\ items[Len(items)].kind \in {"None", "Panic"}

InitUnfold ==
    /\ input \in Streams
    /\ ioErrAt \in {NoIoErr} \cup (0..Len(input))
    /\ pos = 0
    /\ last_line = None
    /\ items = <<>>
    /\ src = <<>>
    /\ pc = "unfold"
    /\ ParseIdle

\* one pull on the iterator, until it has returned None (or has panicked)
Pull ==
    /\ pc = "unfold"
    /\ ~Exhausted
    /\ Len(items) < MaxPulls
    /\ \E r \in {UnfoldNext(input, ioErrAt, pos, last_line)} :
       /\ pos' = r.pos
       /\ last_line' = r.last_line
       /\ items' = Append(items, r.item)
    /\ UNCHANGED <<input, ioErrAt, src, pc, parseVars>>

NextUnfold == Pull

SpecUnfold == InitUnfold /\ [][NextUnfold]_vars

----------------------------------------------------------------------------
(* Vocabulary of the properties of the Unfold iterator *)

\* the contents of the CRLF-terminated physical lines of s, in order
RECURSIVE SplitCRLF(_, _)
SplitCRLF(s, cur) ==
    IF s = <<>> THEN <<>>
    ELSE IF Len(s) >= 2 /\ s[1] = CR /\ s[2] = LF
    THEN <<cur>> \o SplitCRLF(SubSeq(s, 3, Len(s)), <<>>)
    ELSE SplitCRLF(Tail(s), Append(cur, s[1]))

PhysicalLines(s) == SplitCRLF(s, <<>>)

EndsWithCRLF(s) == Len(s) >= 2 /\ s[Len(s) - 1] = CR /\ s[Len(s)] = LF

IsContinuation(l) == l # <<>> /\ l[1] \in {SP, TAB}

\* every physical line is non-empty, CRLF-terminated, free of stray CR and
\* LF, the first one is no continuation, and the bytes are UTF-8
WellFormed(s) ==
    /\ EndsWithCRLF(s)
    /\ IsUtf8(s)
    /\ LET ls == PhysicalLines(s) IN
       /\ \A i \in 1..Len(ls) :
            /\ ls[i] # <<>>
            /\ \A j \in 1..Len(ls[i]) : ls[i][j] # CR /\ ls[i][j] # LF
       /\ ~IsContinuation(ls[1])

\* a CRLF at the very start of the stream or directly after another CRLF
HasEmptyPhysicalLine(s) ==
    \E i \in 1..(Len(s) - 1) :
        /\ s[i] = CR /\ s[i + 1] = LF
        /\ (i = 1 \/ (i >= 3 /\ s[i - 2] = CR /\ s[i - 1] = LF))

\* a LF that no CR precedes
HasBareLF(s) == \E i \in 1..Len(s) : s[i] = LF /\ (i = 1 \/ s[i - 1] # CR)

OkLines == SelectSeq(items, LAMBDA it : it.kind = "Ok")
HasErr(e) == \E i \in 1..Len(items) : items[i].kind = "Err" /\ items[i].err = e
AtEnd == items # <<>> /\ items[Len(items)].kind = "None"
Cardinal(ls) == Cardinality({ i \in 1..Len(ls) : ~IsContinuation(ls[i]) })

----------------------------------------------------------------------------
(* Specification of the Unfold iterator over fold_and_join(lines) *)

MaxLines == 2

Rep(c, n) == [i \in 1..n |-> c]

\* characters of one, two and three bytes; SPACE inside a line
FillChars == { <<65>>, <<SP>>, <<195, 169>>, <<226, 130, 172>> }

\* line lengths below, at and above one and two fold widths
FillCounts == { 0, 1, 37, 73, 74, 75, 76, 149, 150 }

\* logical lines: non-empty, no CR or LF, no leading SPACE or TAB
LogicalLines == { << <<66>> >> \o Rep(c, n) : c \in FillChars, n \in FillCounts }

InitFoldUnfold ==
    /\ src \in { ls \in SeqsUpTo(LogicalLines, MaxLines) : ls # <<>> }
    /\ input = <<>>
    /\ ioErrAt = NoIoErr
    /\ pos = 0
    /\ last_line = None
    /\ items = <<>>
    /\ pc = "fold"
    /\ ParseIdle

\* the lines are folded and joined, and an Unfold is built over the text
FoldAndJoin ==
    /\ pc = "fold"
    /\ input' = Bytes(fold_and_join(src))
    /\ pc' = "unfold"
    /\ UNCHANGED <<ioErrAt, src, unfoldVars, parseVars>>

NextFoldUnfold == FoldAndJoin \/ Pull

SpecFoldUnfold == InitFoldUnfold /\ [][NextFoldUnfold]_vars

\* C3: running the iterator to exhaustion over fold_and_join(lines) yields
\* exactly the lines: same number, same order, same contents, no error item.
C3_UnfoldFoldInverse ==
    (pc = "unfold" /\ AtEnd) =>
        Front(items) = [i \in 1..Len(src) |-> OkItem(Bytes(src[i]))]

\* C7: on a well-formed stream (hence one that ends right after a
\* CRLF-terminated physical line) the iterator has, when it signals
\* end-of-stream, returned one Ok logical line for every physical line that
\* does not start with SPACE or TAB, the last logical line included.
C7_FlushOnCleanEof ==
    (ioErrAt = NoIoErr /\ WellFormed(input) /\ AtEnd)
        => Len(OkLines) = Cardinal(PhysicalLines(input))

\* C8: a stream that contains an empty physical line makes some pull return
\* the empty-line error, and no pull ever returns Ok with an empty string.
C8_EmptyLineRejected ==
    /\ \A i \in 1..Len(items) : ~(items[i].kind = "Ok" /\ items[i].line = <<>>)
    /\ (ioErrAt = NoIoErr /\ HasEmptyPhysicalLine(input) /\ AtEnd)
           => HasErr("empty_line")

\* C9: a stream that contains a physical line terminated by LF without a
\* preceding CR makes some pull return the malformed-termination error.
C9_BadTerminationRejected ==
    (ioErrAt = NoIoErr /\ HasBareLF(input) /\ AtEnd) => HasErr("termination")

\* C10: no pull aborts: every item is a logical line, an error value or
\* end-of-stream, whatever the bytes of the stream are.
C10_NeverAborts ==
    \A i \in 1..Len(items) : items[i].kind \in {"Ok", "Err", "None"}

----------------------------------------------------------------------------
(* Specification of the content-line round trip: to_string, then parse *)

MaxParams == 2
MaxValues == 2

\* a plain value, the empty value, and a value that has to be quoted
ParamValues == { Lit(<<"a">>), <<>>, Lit(<<"b">>) \o <<SEMI>> \o Lit(<<"c">>) }

Params ==
    { Param(Lit(<<"P">>), vs) :
        vs \in { v \in SeqsUpTo(ParamValues, MaxValues) : v # <<>> } }

LineValues == { Lit(<<"v">>), Lit(<<"a">>) \o <<COLON, SEMI>> \o Lit(<<"b">>) }

ContentLines ==
    { ContentLine(Lit(<<"X">>), ps, v) :
        ps \in SeqsUpTo(Params, MaxParams), v \in LineValues }

InitLine ==
    /\ src \in ContentLines
    /\ input = <<>>
    /\ ioErrAt = NoIoErr
    /\ pos = 0
    /\ last_line = None
    /\ items = <<>>
    /\ pc = "format"
    /\ ParseIdle

\* content_line.to_string()
Format ==
    /\ pc = "format"
    /\ input' = ContentLineToString(src)
    /\ pc' = "parse"
    /\ UNCHANGED <<ioErrAt, src, unfoldVars, parseVars>>

\* rebuilt_line.parse::<ContentLine>()
ParseLine ==
    /\ pc = "parse"
    /\ citems' = <<ContentLineFromStr(input)>>
    /\ pc' = "done"
    /\ UNCHANGED <<input, ioErrAt, src, unfoldVars, fused, peeked, stack, result>>

NextLine == Format \/ ParseLine

SpecLine == InitLine /\ [][NextLine]_vars

\* C2: for every valid ContentLine L, parsing the text L formats to succeeds
\* and gives L back.
C2_LineRoundTrip == pc = "done" => citems = <<ParseOk(src)>>

----------------------------------------------------------------------------
(* Specification of ICalObject::from_str over a text of physical lines *)

MaxPhysLines == 4

\* marker lines of two object types, a property, a continuation, an empty
\* line, a line without ':', a line that is not UTF-8, a property with a
\* parameter of two values, a line with a LF in it
PhysLines ==
    { BEGIN \o <<COLON>> \o Lit(<<"A">>),
      BEGIN \o <<COLON>> \o Lit(<<"B">>),
      END \o <<COLON>> \o Lit(<<"A">>),
      END \o <<COLON>> \o Lit(<<"B">>),
      Lit(<<"X">>) \o <<COLON>> \o Lit(<<"1">>),
      <<SP>> \o Lit(<<"2">>),
      <<>>,
      Lit(<<"Q">>),
      Lit(<<"Y">>) \o <<COLON, InvalidByte>>,
      Lit(<<"X">>) \o <<SEMI>> \o Lit(<<"P">>) \o <<EQUALS>> \o Lit(<<"a">>)
          \o <<COMMA>> \o Lit(<<"b">>) \o <<COLON>> \o Lit(<<"v">>),
      Lit(<<"X">>) \o <<COLON>> \o Lit(<<"1">>) \o <<LF>> \o Lit(<<"2">>) }

Texts ==
    { Concat([i \in 1..Len(ls) |-> ls[i] \o <<CR, LF>>]) :
        ls \in SeqsUpTo(PhysLines, MaxPhysLines) }

Init ==
    /\ input \in Texts
    /\ src = <<>>
    /\ ioErrAt = NoIoErr
    /\ pos = 0
    /\ last_line = None
    /\ items = <<>>
    /\ pc = "start"
    /\ ParseIdle

Next == Start \/ Body

Spec == Init /\ [][Next]_vars

----------------------------------------------------------------------------
(* Specification of the tree round trip: to_string, then from_str *)

MaxSubs == 2

ObjectTypes == { Lit(<<"A">>), Lit(<<"B">>) }

\* a plain property; one parameter; two parameters, one value quoted; a
\* value of 40 two-byte chars, which has to be folded; a Param of two values
Property1 == ContentLine(Lit(<<"X">>), <<>>, Lit(<<"1">>))
Property2 == ContentLine(Lit(<<"X">>), <<Param(Lit(<<"P">>), <<Lit(<<"a">>)>>)>>, Lit(<<"v">>))
Property3 ==
    ContentLine(Lit(<<"Y">>),
                <<Param(Lit(<<"P">>), <<Lit(<<"a">>) \o <<SEMI>> \o Lit(<<"b">>)>>),
                  Param(Lit(<<"Q">>), <<Lit(<<"c">>)>>)>>,
                Lit(<<"v">>) \o <<COLON>>)
Property4 == ContentLine(Lit(<<"Y">>), <<>>, Concat(Rep(<<195, 169>>, 40)))
Property5 ==
    ContentLine(Lit(<<"X">>), <<Param(Lit(<<"P">>), <<Lit(<<"a">>), Lit(<<"b">>)>>)>>,
                Lit(<<"v">>))

PropertyLists ==
    { <<>>, <<Property1>>, <<Property2, Property3>>, <<Property4>>,
      <<Property1, Property5>> }

Leaves ==
    { ICalObject(t, ps, <<>>) : t \in ObjectTypes, ps \in PropertyLists }

Level1 ==
    { ICalObject(t, ps, subs) :
        t \in ObjectTypes, ps \in PropertyLists, subs \in SeqsUpTo(Leaves, MaxSubs) }

Level2 ==
    { ICalObject(Lit(<<"A">>), ps, <<sub>>) :
        ps \in {<<>>, <<Property1>>}, sub \in Level1 }

\* an object_type of 80 bytes, whose BEGIN and END lines have to be folded
LongTyped ==
    { ICalObject(Rep(Ascii["A"], 80), ps, subs) :
        ps \in {<<>>, <<Property1>>}, subs \in SeqsUpTo(Leaves, 1) }

Trees == Level1 \cup Level2 \cup LongTyped

InitRoundTrip ==
    /\ src \in Trees
    /\ input = <<>>
    /\ ioErrAt = NoIoErr
    /\ pos = 0
    /\ last_line = None
    /\ items = <<>>
    /\ pc = "format"
    /\ ParseIdle

\* ical.to_string()
Serialize ==
    /\ pc = "format"
    /\ input' = Bytes(ObjectToString(src))
    /\ pc' = "start"
    /\ UNCHANGED <<ioErrAt, src, unfoldVars, parseVars>>

NextRoundTrip == Serialize \/ Start \/ Body

SpecRoundTrip == InitRoundTrip /\ [][NextRoundTrip]_vars

\* C1: for every object tree T of the data model, parsing the text T
\* serializes to succeeds and returns a tree equal to T.
C1_TreeRoundTrip == pc = "done" => result = ResOk(src)

----------------------------------------------------------------------------
(* Properties of ICalObject::from_str *)

Returned == pc = "done" /\ result.kind \in {"Ok", "Err"}

\* C4: when the Unfold iterator has yielded an error item during a parse,
\* the parse returns an error and no tree: no Unfold error is skipped.
C4_FailStop ==
    (Returned /\ \E i \in 1..Len(items) : items[i].kind = "Err")
        => result.kind = "Err"

IsMarker(l, marker) ==
    /\ Len(l) > Len(marker)
    /\ SubSeq(l, 1, Len(marker) + 1) = marker \o <<COLON>>

MarkerValue(l, marker) == SubSeq(l, Len(marker) + 2, Len(l))

\* the text is made of BEGIN, END and property lines only
PlainText(s) ==
    /\ WellFormed(s)
    /\ \A i \in 1..Len(PhysicalLines(s)) :
         LET l == PhysicalLines(s)[i] IN
         ~IsContinuation(l) /\ ContentLineFromStr(l).kind = "Ok"

\* within the first object of the lines ls, some END carries a value other
\* than the value of the BEGIN it closes; open: the values of the BEGINs
\* not closed yet
RECURSIVE MismatchedEnd(_, _)
MismatchedEnd(ls, open) ==
    IF ls = <<>> THEN FALSE
    ELSE IF IsMarker(ls[1], BEGIN)
    THEN MismatchedEnd(Tail(ls), Append(open, MarkerValue(ls[1], BEGIN)))
    ELSE IF open = <<>> THEN FALSE
    ELSE IF IsMarker(ls[1], END)
    THEN \/ MarkerValue(ls[1], END) # open[Len(open)]
         \/ (Len(open) > 1 /\ MismatchedEnd(Tail(ls), Front(open)))
    ELSE MismatchedEnd(Tail(ls), open)

BeginAEndB ==
    BEGIN \o <<COLON>> \o Lit(<<"A">>) \o <<CR, LF>>
        \o END \o <<COLON>> \o Lit(<<"B">>) \o <<CR, LF>>

\* C5: a text in which the END of an object, at any nesting level, carries
\* a value different from the value of its BEGIN fails to parse and gives no
\* tree; so does the text BEGIN:A CRLF END:B CRLF.
C5_MismatchedEndFails ==
    /\ (/\ Returned
        /\ PlainText(input)
        /\ MismatchedEnd(PhysicalLines(input), <<>>))
           => result.kind = "Err"
    /\ (Returned /\ input = BeginAEndB) => result.kind = "Err"

\* C6: when the items run out while a level is in Body (its BEGIN consumed,
\* its END not yet), the parse returns an error and no tree.
C6_EndOfStreamInBodyFails ==
    (/\ Returned
     /\ Len(citems) > 1
     /\ citems[Len(citems)].kind = "None")
        => result.kind = "Err"

----------------------------------------------------------------------------
(* Specification of ContentLine::from_str over an arbitrary line *)

MaxLineChunks == 5

\* the pieces raw lines are made of: a parameter opener, safe values, the
\* separators, a quoted value, a value part, control characters
LineChunks ==
    { <<SEMI>> \o Lit(<<"P">>) \o <<EQUALS>>,
      Lit(<<"a">>),
      Lit(<<"b">>),
      <<COMMA>>,
      <<DQUOTE>> \o Lit(<<"b">>) \o <<SEMI>> \o Lit(<<"c">>) \o <<DQUOTE>>,
      <<COLON>> \o Lit(<<"v">>),
      <<DQUOTE>>, <<SEMI>>, <<COLON>>, <<CR>>, <<LF>> }

\* the line is made of up to MaxLineChunks pieces, with or without a name in
\* front
InitParse ==
    /\ input \in { head \o Concat(cs) :
                     head \in { <<>>, Lit(<<"X">>) },
                     cs \in SeqsUpTo(LineChunks, MaxLineChunks) }
    /\ src = <<>>
    /\ ioErrAt = NoIoErr
    /\ pos = 0
    /\ last_line = None
    /\ items = <<>>
    /\ pc = "parse"
    /\ ParseIdle

NextParse == ParseLine

SpecParse == InitParse /\ [][NextParse]_vars

\* the line ends right after the '=' of a parameter, or right after the
\* closing double quote of a quoted parameter value
EndsInsideParams(l) ==
    \/ l = Lit(<<"X">>) \o <<SEMI>> \o Lit(<<"P">>) \o <<EQUALS>>
    \/ l = Lit(<<"X">>) \o <<SEMI>> \o Lit(<<"P">>) \o <<EQUALS>>
               \o <<DQUOTE>> \o Lit(<<"b">>) \o <<SEMI>> \o Lit(<<"c">>) \o <<DQUOTE>>

\* C11: for every line, parse returns a ContentLine or a grammar error (it
\* never indexes past the end of the line), and a line that ends inside its
\* parameter section, with no ':' after it, is rejected with a grammar error.
C11_ParseTotal ==
    pc = "done" =>
        /\ citems[1].kind \in {"Ok", "Err"}
        /\ (EndsInsideParams(input) => citems[1].kind = "Err")

----------------------------------------------------------------------------
(* Specification of ICalObject::from_peekable over a given stream of items *)

MaxItems == 5
MaxCalls == 2

\* an item that is a parsed line without parameters
LineItem(name, value) == ParseOk(ContentLine(name, <<>>, value))

\* markers of two object types, in upper and in mixed case, a property, and
\* a line that failed to parse
BuilderItems ==
    { LineItem(BEGIN, Lit(<<"A">>)),
      LineItem(BEGIN, Lit(<<"B">>)),
      LineItem(END, Lit(<<"A">>)),
      LineItem(END, Lit(<<"B">>)),
      LineItem(Lit(<<"X">>), Lit(<<"1">>)),
      LineItem(BEGIN, Lit(<<"a">>)),
      LineItem(Lit(<<"b", "e", "g", "i", "n">>), Lit(<<"a">>)),
      LineItem(Lit(<<"E", "n", "d">>), Lit(<<"A">>)),
      LineItem(Lit(<<"E", "n", "d">>), Lit(<<"a">>)),
      ParseErr("invalid name") }

\* next() of an iterator over the items v, p of which it has handed out
VecNext(v, p, ll, fz, log) ==
    IF p < Len(v) THEN Pulled(v[p + 1], p + 1, ll, fz, log)
    ELSE Pulled(ItemNone, p, ll, fz, log)

\* Peekable::peek and Peekable::next over that iterator
PeekVecItem ==
    IF peeked # None
    THEN Pulled(peeked[1], pos, last_line, fused, items)
    ELSE VecNext(input, pos, last_line, fused, items)

InitBuilder ==
    /\ input \in SeqsUpTo(BuilderItems, MaxItems)
    /\ src = <<>>
    /\ ioErrAt = NoIoErr
    /\ pos = 0
    /\ last_line = None
    /\ items = <<>>
    /\ pc = "start"
    /\ ParseIdle

StartItems ==
    /\ pc = "start"
    /\ \E n \in {PeekVecItem} : StartWith(n)
    /\ UNCHANGED <<input, ioErrAt, src>>

BodyItems ==
    /\ pc = "body"
    /\ \E n \in {PeekVecItem}, top \in {stack[Len(stack)]} : BodyWith(n, top)
    /\ UNCHANGED <<input, ioErrAt, src>>

\* the caller keeps the object it got and calls from_peekable once more on
\* the same peekable
SecondCall ==
    /\ pc = "done"
    /\ result.kind = "Ok"
    /\ Len(src) + 1 < MaxCalls
    /\ src' = Append(src, result.obj)
    /\ result' = NoResult
    /\ pc' = "start"
    /\ UNCHANGED <<input, ioErrAt, unfoldVars, fused, peeked, citems, stack>>

NextBuilder == StartItems \/ BodyItems \/ SecondCall

SpecBuilder == InitBuilder /\ [][NextBuilder]_vars

----------------------------------------------------------------------------
(* Vocabulary of the properties of from_peekable: well-nested item streams *)

BeginNames == { BEGIN, Lit(<<"b", "e", "g", "i", "n">>) }
EndNames == { END, Lit(<<"E", "n", "d">>) }

IsBeginItem(it) == it.kind = "Ok" /\ it.line.name \in BeginNames
IsEndItem(it) == it.kind = "Ok" /\ it.line.name \in EndNames

\* the number of objects open after the i-th item of v
Depth(v, i) ==
    Cardinality({ j \in 1..i : IsBeginItem(v[j]) })
        - Cardinality({ j \in 1..i : IsEndItem(v[j]) })

\* the index of the END that closes the object the i-th item of v opens
MatchingEnd(v, i) ==
    Min({ j \in (i + 1)..Len(v) : Depth(v, j) = Depth(v, i) - 1 })

\* v is one complete object: a BEGIN, the lines and complete objects inside
\* it, and an END, each END carrying the value of the BEGIN it closes
CompleteObject(v) ==
    /\ v # <<>>
    /\ \A i \in 1..Len(v) : v[i].kind = "Ok"
    /\ IsBeginItem(v[1])
    /\ \A i \in 1..(Len(v) - 1) : Depth(v, i) >= 1
    /\ Depth(v, Len(v)) = 0
    /\ \A i \in 1..Len(v) :
         IsBeginItem(v[i]) => v[MatchingEnd(v, i)].line.value = v[i].line.value

\* the k-th smallest element of a set of numbers
Nth(S, k) == CHOOSE x \in S : Cardinality({ y \in S : y < x }) = k - 1

\* the object a complete object v denotes: the non-marker lines directly
\* inside it, in order, and the objects directly inside it, in order
RECURSIVE TreeOf(_)
TreeOf(v) ==
    LET props == { i \in 2..(Len(v) - 1) :
                     Depth(v, i) = 1 /\ ~IsBeginItem(v[i]) /\ ~IsEndItem(v[i]) }
        subs == { i \in 2..(Len(v) - 1) : IsBeginItem(v[i]) /\ Depth(v, i) = 2 }
    IN  ICalObject(v[1].line.value,
                   [k \in 1..Cardinality(props) |-> v[Nth(props, k)].line],
                   [k \in 1..Cardinality(subs) |->
                       TreeOf(SubSeq(v, Nth(subs, k), MatchingEnd(v, Nth(subs, k))))])

NestedAB ==
    << LineItem(BEGIN, Lit(<<"A">>)), LineItem(BEGIN, Lit(<<"B">>)),
       LineItem(END, Lit(<<"B">>)), LineItem(END, Lit(<<"A">>)) >>

ObjectAWithB ==
    ICalObject(Lit(<<"A">>), <<>>, << ICalObject(Lit(<<"B">>), <<>>, <<>>) >>)

ClosesAt(v, k) == Depth(v, k) = 0 /\ \A i \in 1..(k - 1) : Depth(v, i) >= 1

\* C13: when from_peekable has returned Ok for an object, it has consumed
\* exactly the items from the BEGIN through the matching END, the k-th item,
\* and holds none back in the peekable; when a second complete object
\* follows, a second call on the same peekable returns that object.
C13_ConsumesThroughEnd ==
    /\ (pc = "done" /\ src = <<>> /\ result.kind = "Ok") =>
           \E k \in 1..Len(input) :
               ClosesAt(input, k) /\ pos = k /\ peeked = None
    /\ \A k \in 1..Len(input) :
           (/\ pc = "done"
            /\ Len(src) = 1
            /\ CompleteObject(SubSeq(input, 1, k))
            /\ CompleteObject(SubSeq(input, k + 1, Len(input))))
               => /\ src[1] = TreeOf(SubSeq(input, 1, k))
                  /\ result = ResOk(TreeOf(SubSeq(input, k + 1, Len(input))))

\* the ways a parameter value is written, with the value each denotes:
\* unquoted safe text (also the empty one) and double-quoted text
ValueForms ==
    { [text |-> Lit(<<"a">>), value |-> Lit(<<"a">>)],
      [text |-> Lit(<<"b">>), value |-> Lit(<<"b">>)],
      [text |-> <<>>, value |-> <<>>],
      [text |-> <<DQUOTE, DQUOTE>>, value |-> <<>>],
      [text |-> <<DQUOTE>> \o Lit(<<"b">>) \o <<SEMI>> \o Lit(<<"c">>) \o <<DQUOTE>>,
       value |-> Lit(<<"b">>) \o <<SEMI>> \o Lit(<<"c">>)] }

RECURSIVE CommaSeparated(_)
CommaSeparated(ts) ==
    IF Len(ts) = 1 THEN ts[1]
    ELSE ts[1] \o <<COMMA>> \o CommaSeparated(Tail(ts))

\* the line X;P=v1,...,vn:v
LineWithValues(fs) ==
    Lit(<<"X">>) \o <<SEMI>> \o Lit(<<"P">>) \o <<EQUALS>>
        \o CommaSeparated([i \in 1..Len(fs) |-> fs[i].text])
        \o <<COLON>> \o Lit(<<"v">>)

XPabv ==
    Lit(<<"X">>) \o <<SEMI>> \o Lit(<<"P">>) \o <<EQUALS>> \o Lit(<<"a">>)
        \o <<COMMA>> \o Lit(<<"b">>) \o <<COLON>> \o Lit(<<"v">>)

\* C14: a line name;P=v1,...,vn:value parses to the name, the value and one
\* Param P whose values are v1..vn in order, quotes removed; X;P=a,b:v
\* gives name X, Param P with values [a, b] and value v.
C14_ParamValues ==
    (pc = "done" /\ Len(input) >= 5 /\ SubSeq(input, 1, 4) = SubSeq(XPabv, 1, 4)) =>
        /\ \A fs \in SeqsUpTo(ValueForms, MaxLineChunks - 2) :
             (fs # <<>> /\ input = LineWithValues(fs)) =>
                 citems = << ParseOk(ContentLine(
                                Lit(<<"X">>),
                                << Param(Lit(<<"P">>), [i \in 1..Len(fs) |-> fs[i].value]) >>,
                                Lit(<<"v">>))) >>
        /\ input = XPabv =>
             citems = << ParseOk(ContentLine(
                            Lit(<<"X">>),
                            << Param(Lit(<<"P">>), <<Lit(<<"a">>), Lit(<<"b">>)>>) >>,
                            Lit(<<"v">>))) >>

\* a line with an unquoted and a quoted value has been parsed
C14_Witness ==
    /\ pc = "done"
    /\ input = Lit(<<"X">>) \o <<SEMI>> \o Lit(<<"P">>) \o <<EQUALS>> \o Lit(<<"a">>)
                   \o <<COMMA, DQUOTE>> \o Lit(<<"b">>) \o <<SEMI>> \o Lit(<<"c">>)
                   \o <<DQUOTE, COLON>> \o Lit(<<"v">>)
    /\ citems[1].kind = "Ok"
    /\ Len(citems[1].line.params) = 1
    /\ Len(citems[1].line.params[1].values) = 2

----------------------------------------------------------------------------
(* Specification of fold_with_max_length and fold over a line and a width *)

MaxFoldChars == 4
MaxWidth == 8

\* characters of one, two, three and four bytes
FoldAlphabet == { <<65>>, <<195, 169>>, <<226, 130, 172>>, <<240, 159, 152, 128>> }

\* short lines of mixed characters, and long lines of one character
FoldLines ==
    SeqsUpTo(FoldAlphabet, MaxFoldChars)
        \cup { Rep(c, n) : c \in FoldAlphabet, n \in FillCounts }

InitFold ==
    /\ src \in [line : FoldLines, max_length : 0..MaxWidth]
    /\ input = <<>>
    /\ ioErrAt = NoIoErr
    /\ pos = 0
    /\ last_line = None
    /\ items = <<>>
    /\ pc = "fold"
    /\ ParseIdle

\* fold_with_max_length(line, max_length)
FoldWithMaxLength ==
    /\ pc = "fold"
    /\ input' = Bytes(fold_with_max_length(src.line, src.max_length))
    /\ pc' = "folded"
    /\ UNCHANGED <<ioErrAt, src, unfoldVars, parseVars>>

\* fold(line)
FoldDefault ==
    /\ pc = "fold"
    /\ input' = Bytes(fold(src.line))
    /\ pc' = "folded_default"
    /\ UNCHANGED <<ioErrAt, src, unfoldVars, parseVars>>

NextFold == FoldWithMaxLength \/ FoldDefault

SpecFold == InitFold /\ [][NextFold]_vars

\* the offsets at which a CRLF of the text starts
CrLfs(text) ==
    { i \in 1..(Len(text) - 1) : text[i] = CR /\ text[i + 1] = LF }

\* the physical segment of a folded line that starts at offset s: the bytes
\* from s up to the next CRLF, or up to the end of the text
SegmentFrom(text, s) ==
    SubSeq(text, s, Min({ i \in CrLfs(text) : i >= s } \cup {Len(text) + 1}) - 1)

\* every segment, the first one and the one after each CRLF, is at most w
\* bytes long and is made of whole characters
SegmentsFit(text, w) ==
    \A s \in {1} \cup { i + 2 : i \in CrLfs(text) } :
        \A seg \in {SegmentFrom(text, s)} : Len(seg) <= w /\ IsUtf8(seg)

\* the number of segments of the text
SegmentCount(text) == Cardinality(CrLfs(text)) + 1

\* the encoded length of the longest character of a line, 0 for no character
WidestChar(line) == Max({0} \cup { Len(line[i]) : i \in 1..Len(line) })

\* C15 as stated: for every line and every max_width each physical segment
\* of fold_with_max_length(line, max_width) is at most max_width bytes long
\* and no character is split; fold(line) uses the width 75.
C15_FoldWidthAnyWidth ==
    /\ pc = "folded" => SegmentsFit(input, src.max_length)
    /\ pc = "folded_default" => SegmentsFit(input, 75)

\* C15 amended: the same for every max_width that is at least one more
\* than the encoded length of the longest character of the line (a
\* continuation segment holds the SPACE and at least one character).
C15_FoldWidth ==
    /\ (pc = "folded" /\ src.max_length >= 1 + WidestChar(src.line))
           => SegmentsFit(input, src.max_length)
    /\ pc = "folded_default" => SegmentsFit(input, 75)

\* a line of mixed characters folded into three segments or more
C15_Witness ==
    /\ pc = "folded"
    /\ src.max_length >= 1 + WidestChar(src.line)
    /\ WidestChar(src.line) = 4
    /\ SegmentCount(input) >= 3

----------------------------------------------------------------------------
(* Data-model invariants of what from_str returns *)

NoCrLf(str) == \A i \in 1..Len(str) : str[i] # CR /\ str[i] # LF

\* each Param of the line has a value, and no field holds a CR or a LF
LineFieldsOk(l) ==
    /\ NoCrLf(l.name)
    /\ NoCrLf(l.value)
    /\ \A i \in 1..Len(l.params) :
         /\ Len(l.params[i].values) >= 1
         /\ NoCrLf(l.params[i].name)
         /\ \A j \in 1..Len(l.params[i].values) : NoCrLf(l.params[i].values[j])

RECURSIVE TreeFieldsOk(_)
TreeFieldsOk(obj) ==
    /\ NoCrLf(obj.object_type)
    /\ \A i \in 1..Len(obj.properties) : LineFieldsOk(obj.properties[i])
    /\ \A i \in 1..Len(obj.sub_objects) : TreeFieldsOk(obj.sub_objects[i])

\* C16: in every ContentLine parse returns and in every tree the builder
\* returns over parsed lines, each Param has at least one value and no name,
\* parameter name, parameter value, value or object_type holds a CR or a LF.
C16_DataModel ==
    /\ \A i \in 1..Len(citems) :
         citems[i].kind = "Ok" => LineFieldsOk(citems[i].line)
    /\ result.kind = "Ok" => TreeFieldsOk(result.obj)

\* a tree with a property that has a Param of two values has been returned
C16_Witness ==
    /\ result.kind = "Ok"
    /\ \E i \in 1..Len(result.obj.properties) :
         /\ Len(result.obj.properties[i].params) = 1
         /\ Len(result.obj.properties[i].params[1].values) = 2

\* C17: the first call of from_peekable returns an error and no tree when the
\* stream is empty, when its first item is an error and when the name of its
\* first item is not BEGIN in any case; otherwise the value of the first
\* item is the object_type of the object being built and of the one returned.
C17_StartState ==
    (src = <<>> /\ pc # "start") =>
        IF input # <<>> /\ IsBeginItem(input[1])
        THEN /\ Len(citems) = 1 =>
                  pc = "body" /\ stack = << ICalObject(input[1].line.value, <<>>, <<>>) >>
             /\ pc = "body" => stack[1].object_type = input[1].line.value
             /\ result.kind = "Ok" => result.obj.object_type = input[1].line.value
        ELSE /\ pc = "done"
             /\ result.kind = "Err"
             /\ result.obj = NoObject
             /\ Len(citems) = 1

\* a stream that starts with begin:a has given an object of type a
C17_Witness ==
    /\ src = <<>>
    /\ pc = "done"
    /\ Len(input) = 3
    /\ input[1] = LineItem(Lit(<<"b", "e", "g", "i", "n">>), Lit(<<"a">>))
    /\ result.kind = "Ok"
    /\ result.obj.object_type = Lit(<<"a">>)

\* no property of the object, at any depth, is named BEGIN or END in any case
RECURSIVE NoMarkerStored(_)
NoMarkerStored(obj) ==
    /\ \A i \in 1..Len(obj.properties) :
         obj.properties[i].name \notin (BeginNames \cup EndNames)
    /\ \A i \in 1..Len(obj.sub_objects) : NoMarkerStored(obj.sub_objects[i])

\* the iteration that meets an END, in any case, closes the level when the
\* END's value is exactly the level's object_type and fails otherwise
EndClosesOnExactValue ==
    (/\ pc = "body"
     /\ peeked = None
     /\ pos < Len(input)
     /\ IsEndItem(input[pos + 1]))
        => IF input[pos + 1].line.value = stack[Len(stack)].object_type
           THEN /\ result'.kind \in {"None", "Ok"}
                /\ IF Len(stack) = 1
                   THEN result' = ResOk(stack[1]) /\ pc' = "done"
                   ELSE Len(stack') = Len(stack) - 1 /\ pc' = "body"
           ELSE /\ pc' = "done"
                /\ result'.kind = "Err"
                /\ result'.obj = NoObject

\* the iteration that meets a BEGIN, in any case, opens a level of that value
BeginOpensLevel ==
    (/\ pc = "body"
     /\ peeked = None
     /\ pos < Len(input)
     /\ IsBeginItem(input[pos + 1]))
        => /\ Len(stack') = Len(stack) + 1
           /\ stack'[Len(stack')] = ICalObject(input[pos + 1].line.value, <<>>, <<>>)
           /\ pc' = "body"

BeginaEndA == << LineItem(BEGIN, Lit(<<"a">>)), LineItem(END, Lit(<<"A">>)) >>

\* C18: BEGIN and END are recognised in any case at every level and are
\* never stored as properties; an END closes its level only when its value
\* is exactly the value of the level's BEGIN, and fails the parse otherwise;
\* BEGIN:a followed by END:A fails.
C18_MatchingPolicy ==
    /\ [](/\ \A i \in 1..Len(stack) : NoMarkerStored(stack[i])
          /\ result.kind = "Ok" => NoMarkerStored(result.obj)
          /\ (pc = "done" /\ input = BeginaEndA) => result.kind = "Err")
    /\ [][EndClosesOnExactValue /\ BeginOpensLevel]_vars

\* BEGIN:a, END:A has failed
C18_Witness ==
    /\ pc = "done"
    /\ input = BeginaEndA
    /\ result.kind = "Err"
    /\ pos = 2

NestedError ==
    << LineItem(BEGIN, Lit(<<"A">>)), LineItem(BEGIN, Lit(<<"B">>)),
       ParseErr("invalid name"), LineItem(END, Lit(<<"B">>)) >>

\* C19: once the call has pulled an error item in Body, at whatever depth, it
\* has returned that error and no tree, the error item is consumed (not held
\* back in the peekable) and no item after it has been pulled.
C19_BodyErrorPropagates ==
    src = <<>> =>
        \A i \in 2..Len(input) :
            (input[i].kind = "Err" /\ pos >= i) =>
                /\ pc = "done"
                /\ result = ResErr(input[i].err)
                /\ stack = <<>>
                /\ peeked = None
                /\ pos = i
                /\ Len(citems) = i

\* an error item inside a sub-object has ended the parse
C19_Witness ==
    /\ pc = "done"
    /\ input = NestedError
    /\ result.kind = "Err"
    /\ pos = 3

----------------------------------------------------------------------------
(* Continuation joining *)

\* the physical lines i+1.. of ls that continue the line i: the longest run
\* of lines directly after it that start with SPACE or TAB
LastContinuation(ls, i) ==
    Max({ e \in i..Len(ls) : \A j \in (i + 1)..e : IsContinuation(ls[j]) })

\* the logical line that starts with the physical line i of ls
JoinedLine(ls, i) ==
    ls[i] \o Concat([j \in 1..(LastContinuation(ls, i) - i) |-> Tail(ls[i + j])])

Heads(ls) == { i \in 1..Len(ls) : ~IsContinuation(ls[i]) }

LogicalLinesOf(ls) ==
    [k \in 1..Cardinality(Heads(ls)) |-> JoinedLine(ls, Nth(Heads(ls), k))]

\* a is b with some of its elements left out
RECURSIVE IsSubsequence(_, _)
IsSubsequence(a, b) ==
    IF a = <<>> THEN TRUE
    ELSE IF b = <<>> THEN FALSE
    ELSE IF a[1] = b[1] THEN IsSubsequence(Tail(a), Tail(b))
    ELSE IsSubsequence(a, Tail(b))

EmittedLines == [k \in 1..Len(OkLines) |-> OkLines[k].line]

\* every emitted logical line is a non-continuation physical line joined
\* with the continuation lines directly after it, first bytes removed, and
\* the emitted lines come in stream order, no physical line used twice
EmittedAreJoinedLines ==
    IsSubsequence(EmittedLines, LogicalLinesOf(PhysicalLines(input)))


\* C20: each logical line the iterator emits is one physical line that does
\* not start with SPACE or TAB followed by the contents of all the physical
\* lines directly after it that do, each without its first byte; the lines
\* come in stream order; and every physical line contributes to exactly one
\* emitted logical line: on a well-formed stream read to its end the emitted
\* lines are all the logical lines of the stream.
C20_ContinuationJoining ==
    /\ EmittedAreJoinedLines
    /\ (ioErrAt = NoIoErr /\ WellFormed(input) /\ AtEnd)
           => EmittedLines = LogicalLinesOf(PhysicalLines(input))

----------------------------------------------------------------------------
(* Specification of the Unfold iterator over one folded line and the line *)
(* after it                                                                *)

MaxInverseChars == 3

\* characters of one to four bytes, SPACE and TAB among them
InverseAlphabet ==
    { <<65>>, <<SP>>, <<TAB>>, <<195, 169>>, <<226, 130, 172>>,
      <<240, 159, 152, 128>> }

\* logical lines without CR or LF that do not start with SPACE or TAB: the
\* empty line and short lines of mixed characters, folded at small widths,
\* and long lines of one character, folded at the default width
InverseShortLines ==
    { l \in SeqsUpTo(InverseAlphabet, MaxInverseChars) :
        l = <<>> \/ l[1] \notin { <<SP>>, <<TAB>> } }

InverseLongLines ==
    { << <<66>> >> \o Rep(c, n) : c \in InverseAlphabet, n \in FillCounts }

\* the physical line after the folded one, without CR or LF and not starting
\* with SPACE or TAB: empty, plain, with SPACE and TAB inside, not UTF-8
FurtherLines ==
    { <<>>, <<88>>, <<88, SP, TAB, 89>>, <<InvalidByte>> }

InitFoldLine ==
    /\ src \in [line : InverseShortLines, max_length : 0..MaxWidth,
                further : FurtherLines]
               \cup [line : InverseShortLines \cup InverseLongLines,
                     max_length : {DefaultMaxLength}, further : FurtherLines]
    /\ input = <<>>
    /\ ioErrAt = NoIoErr
    /\ pos = 0
    /\ last_line = None
    /\ items = <<>>
    /\ pc = "fold"
    /\ ParseIdle

\* the line is folded, the further line is put after it, each with its
\* CRLF, and an Unfold is built over the text
FoldLine ==
    /\ pc = "fold"
    /\ input' = Bytes(fold_with_max_length(src.line, src.max_length))
                    \o <<CR, LF>> \o src.further \o <<CR, LF>>
    /\ pc' = "unfold"
    /\ UNCHANGED <<ioErrAt, src, unfoldVars, parseVars>>

NextFoldLine == FoldLine \/ Pull

SpecFoldLine == InitFoldLine /\ [][NextFoldLine]_vars

\* the folded line at the head of the stream
Folded == SubSeq(input, 1, Len(input) - Len(src.further) - 4)

\* the text is the bytes of the line with nothing but breaks put in, each
\* break being CR, LF and one SPACE: every CR and LF of the text belongs to
\* a CRLF, a SPACE follows every CRLF, and the bytes outside the breaks are
\* the bytes of the line, in order
BreaksAreCrLfSpace(line, text) ==
    \A brk \in {CrLfs(text)}, bytes \in {Bytes(line)} :
        /\ Len(text) = Len(bytes) + 3 * Cardinality(brk)
        /\ \A i \in brk : i + 2 <= Len(text) /\ text[i + 2] = SP
        /\ \A j \in 1..Len(text) :
             IF \E i \in brk : j \in i..(i + 2)
             THEN TRUE
             ELSE text[j] = bytes[j - 3 * Cardinality({ i \in brk : i < j })]

----------------------------------------------------------------------------
(* Layout of the text of an object *)

\* the logical lines of an object: BEGIN:<object_type>, its properties in
\* stored order, the lines of its sub-objects in stored order, and
\* END:<object_type>
RECURSIVE LinesOfObject(_)
LinesOfObject(obj) ==
    << BEGIN \o <<COLON>> \o obj.object_type >>
        \o [i \in 1..Len(obj.properties) |-> ContentLineToString(obj.properties[i])]
        \o Concat([i \in 1..Len(obj.sub_objects) |-> LinesOfObject(obj.sub_objects[i])])
        \o << END \o <<COLON>> \o obj.object_type >>

\* the lines, each folded and followed by CRLF
FoldedLines(ls) ==
    Concat([i \in 1..Len(ls) |-> Bytes(fold(chars(ls[i]))) \o <<CR, LF>>])

\* the number of logical lines of the text: the CRLFs that no SPACE follows
LineEnds(text) ==
    { i \in CrLfs(text) : i + 2 > Len(text) \/ text[i + 2] # SP }

\* the k-th logical line of the text starts with the marker and a colon
LineStartsWith(text, k, marker) ==
    \A s \in { IF k = 1 THEN 1 ELSE Nth(LineEnds(text), k - 1) + 2 } :
        SubSeq(text, s, s + Len(marker)) = marker \o <<COLON>>

\* C22: the text of an object is the folded line BEGIN:<object_type>, every
\* property in stored order, each folded, the text of every sub-object in
\* stored order, and the folded line END:<object_type>; every physical line
\* of the text, the last one included, ends with CRLF; all properties of an
\* object come before all of its sub-objects.
C22_SerializationLayout ==
    pc = "start" =>
        /\ input = FoldedLines(LinesOfObject(src))
        /\ EndsWithCRLF(input)
        /\ \A i \in 1..Len(input) :
             (input[i] = CR \/ input[i] = LF)
                 => (i \in CrLfs(input) \/ (i - 1) \in CrLfs(input))
        /\ Cardinality(LineEnds(input)) = Len(LinesOfObject(src))
        /\ src.sub_objects # <<>> =>
               /\ LineStartsWith(input, 2 + Len(src.properties), BEGIN)
               /\ \A k \in 2..(1 + Len(src.properties)) :
                    ~LineStartsWith(input, k, BEGIN)

\* the text of an object with a folded property and a sub-object that has
\* properties of its own
C22_Witness ==
    /\ pc = "start"
    /\ src.properties = <<Property4>>
    /\ Len(src.sub_objects) = 2
    /\ src.sub_objects[1].properties = <<Property2, Property3>>
    /\ input = FoldedLines(LinesOfObject(src))
    /\ Cardinality(CrLfs(input)) > Cardinality(LineEnds(input))

----------------------------------------------------------------------------
(* Termination of ICalObject::from_str *)

\* before the call of from_str
InitCall ==
    /\ input = <<>>
    /\ src = <<>>
    /\ ioErrAt = NoIoErr
    /\ pos = 0
    /\ last_line = None
    /\ items = <<>>
    /\ pc = "call"
    /\ ParseIdle

\* ICalObject::from_str(s): the iterators are built over the bytes of s
FromStr ==
    /\ pc = "call"
    /\ input' \in Texts
    /\ pc' = "start"
    /\ UNCHANGED <<ioErrAt, src, unfoldVars, parseVars>>

NextCall == FromStr \/ Start \/ Body

\* the parse is one sequential computation: a step that can be taken is taken
SpecTerminating == InitCall /\ [][NextCall]_vars /\ WF_vars(NextCall)

\* the top-level call returns
ParseEnds == <>(pc = "done")

\* every pull on the Unfold iterator that does not return None has read at
\* least one byte
PullsRead ==
    [][(pos' - pos) >= Cardinality({ i \in (Len(items) + 1)..Len(items') :
                                       items'[i].kind # "None" })]_vars

\* every iteration of the Body loop takes one item from the stream or makes
\* a call of from_peekable return, the top-level one or a nested one
BodyConsumes ==
    [][pc = "body" => \/ Len(citems') = Len(citems) + 1
                      \/ pc' = "done"
                      \/ Len(stack') < Len(stack)]_vars

\* C23: on every finite stream each pull on the Unfold iterator reads at
\* least one byte or returns, each iteration of the Body loop consumes at
\* least one item or returns, and the top-level parse ends with a tree or
\* with an error.
C23_Termination ==
    /\ PullsRead
    /\ BodyConsumes
    /\ ParseEnds
    /\ [](pc = "done" => result.kind \in {"Ok", "Err"})

\* the pulls and the iterations make progress and the parse ends
C23_Progress == PullsRead /\ BodyConsumes /\ ParseEnds

----------------------------------------------------------------------------
(* Marker lines in the trees from_peekable returns *)

\* the name is BEGIN or END with each letter in upper or in lower case
IsMarkerName(name) ==
    \E marker \in {BEGIN, END} :
        /\ Len(name) = Len(marker)
        /\ \A i \in 1..Len(name) :
             name[i] \in { marker[i], marker[i] + (Ascii["a"] - Ascii["A"]) }

\* no property of the object or of an object below it has a marker name
RECURSIVE NoMarkerProperty(_)
NoMarkerProperty(obj) ==
    /\ \A i \in 1..Len(obj.properties) : ~IsMarkerName(obj.properties[i].name)
    /\ \A i \in 1..Len(obj.sub_objects) : NoMarkerProperty(obj.sub_objects[i])

\* the number of items of the stream, up to the k-th, with a marker name
MarkerItems(v, k) ==
    Cardinality({ i \in 1..k : v[i].kind = "Ok" /\ IsMarkerName(v[i].line.name) })

\* the number of objects and of properties in a tree
RECURSIVE ObjectCount(_)
ObjectCount(obj) ==
    IF obj.sub_objects = <<>> THEN 1
    ELSE 1 + ObjectCount(obj.sub_objects[1])
           + ObjectCount(ICalObject(obj.object_type, <<>>, Tail(obj.sub_objects))) - 1

RECURSIVE PropertyCount(_)
PropertyCount(obj) ==
    Len(obj.properties)
        + (IF obj.sub_objects = <<>> THEN 0
           ELSE PropertyCount(obj.sub_objects[1])
                  + PropertyCount(ICalObject(obj.object_type, <<>>, Tail(obj.sub_objects))))

\* C24: in every tree the builder returns, no property of any object at any
\* depth has a name equal to BEGIN or END without regard to ASCII case; the
\* marker lines the call consumed have all become object boundaries, and the
\* other lines properties.
C24_NoMarkerProperties ==
    /\ \A i \in 1..Len(src) : NoMarkerProperty(src[i])
    /\ result.kind = "Ok" =>
          /\ NoMarkerProperty(result.obj)
          /\ src = <<>> =>
                /\ MarkerItems(input, pos) >= ObjectCount(result.obj)
                /\ MarkerItems(input, pos) <= 2 * ObjectCount(result.obj)
                /\ PropertyCount(result.obj) = pos - MarkerItems(input, pos)

\* begin:a, X:1, BEGIN:B, End:B, End:a has given an object a with a property
\* and a sub-object
C24_Witness ==
    /\ result.kind = "Ok"
    /\ src = <<>>
    /\ Len(input) = 5
    /\ input[1].line.name = Lit(<<"b", "e", "g", "i", "n">>)
    /\ input[4].line.name = Lit(<<"E", "n", "d">>)
    /\ input[5].line.name = Lit(<<"E", "n", "d">>)
    /\ PropertyCount(result.obj) = 1
    /\ ObjectCount(result.obj) = 2

====
